---- MODULE Spec2Model ----
(***************************************************************************)
(* Model of the cockroachgke Terraform provider (ntschl/crdb-provider):    *)
(* the CRUD handlers of the database, user and changefeed resources, the   *)
(* SQL they send to the cluster and the record each handler leaves in the  *)
(* response state.                                                         *)
(*                                                                         *)
(* Text is a sequence of tokens: a token is a name, the double-quote Q or  *)
(* the separator Sep.  types.String.String() wraps a value in quotes, and  *)
(* strings.Replace(s, "\"", "", -1) deletes every quote token.             *)
(*                                                                         *)
(* Every handler is a pure operator from (cluster, prior state, plan,      *)
(* set of calls the driver fails) to a result record; the action of the    *)
(* handler applies it in one step.                                         *)
(*                                                                         *)
(* The cluster is the provider's collaborator: a statement that fails      *)
(* changes nothing, a batch of statements sent in one call takes effect    *)
(* as a whole or not at all, and a query of several statements returns     *)
(* the rows of its last statement.                                         *)
(*                                                                         *)
(* One specification per resource kind: SpecDatabase, SpecUser and         *)
(* SpecChangefeed.  `last` is the response of the call in flight together  *)
(* with the statements the call sent.  SpecPrivileges runs the privilege   *)
(* loop of the user resource on every list of names, and SpecProvider the  *)
(* provider's Configure on every configuration.  SpecRace runs Create and  *)
(* Update of two user resources that name the same user, one step per      *)
(* database call, in every interleaving.                                   *)
(***************************************************************************)
EXTENDS Integers, Sequences, FiniteSets, TLC

VARIABLES
    databases,      \* cluster catalog: names of the databases that exist
    tables,         \* names of the databases that hold at least one table
    users,          \* cluster: user names that exist
    grants,         \* cluster: [user, database] -> privileges granted on the existing tables
    defaults,       \* cluster: [user, database] -> default privileges for future tables
    jobsRunning,    \* cluster: identifiers of the changefeed jobs that run
    jobsCancelled,  \* cluster: identifiers of the changefeed jobs that were cancelled
    nextJob,        \* cluster: the next job identifier the server assigns
    dbState,        \* response state of the database resource (Null or a record)
    userState,      \* response state of the user resource (Null or a record)
    cfState,        \* response state of the changefeed resource (Null or a record)
    last            \* the most recent operation: what it was given, what it issued, how it ended

vars == <<databases, tables, users, grants, defaults, jobsRunning, jobsCancelled,
          nextJob, dbState, userState, cfState, last>>

clusterDbVars == <<databases, tables>>
clusterUserVars == <<users, grants, defaults>>
clusterJobVars == <<jobsRunning, jobsCancelled, nextJob>>

----------------------------------------------------------------------------
(* Bounds of the model *)

\* at most this many calls of one operation are failed by the driver
MaxFaults == 1

\* the server assigns at most this many job identifiers
MaxJobs == 3

DbNames == {"d1", "d2"}
UserNames == {"u1", "u2"}
Passwords == {"pw"}
TableNames == {"t1"}
Buckets == {"b1", "b2"}
Tokens == {"tok"}
\* privilege lists a plan may carry: empty, one name, two names, and lists with a
\* name outside the vocabulary, first and after a valid one
PrivLists ==
    {<<>>, <<"select">>, <<"insert", "select">>, <<"bogus">>, <<"select", "bogus">>}

\* the privilege loop by itself is run on every list of at most this many names
MaxPrivLen == 4

\* the names such a list draws from: the four of privilegeSlice and two others
PrivInputs == {"select", "update", "insert", "delete", "bogus", "all"}

PrivSequences == UNION {[1..n -> PrivInputs] : n \in 0..MaxPrivLen}

----------------------------------------------------------------------------
(* Values and text *)

\* a resource that is absent from the state
Null == [isNull |-> TRUE]

\* a types.String that is null, and one that is unknown (a computed attribute in a plan)
NullValue == "<null>"
UnknownValue == "<unknown>"

\* the double-quote character
Q == "\""

\* the separator the privilege loop puts between two names
Sep == ", "

\* types.String.String(): the value in double quotes; null and unknown print bare
String(v) ==
    IF v = NullValue \/ v = UnknownValue THEN <<v>> ELSE <<Q, v, Q>>

\* strings.Replace(s, "\"", "", -1)
StripQuotes(s) == SelectSeq(s, LAMBDA c : c # Q)

\* the identifier the cluster reads from a text: "x" in quotes and bare x both name x
Ident(t) ==
    IF Len(t) = 3 /\ t[1] = Q /\ t[3] = Q THEN t[2]
    ELSE IF Len(t) = 1 /\ t[1] # Q THEN t[1]
    ELSE "<syntax error>"

\* one SQL statement: its verb and the texts interpolated into it
Stmt(verb, args) == [sql |-> verb, args |-> args]

\* one driver call: Exec, Query or QueryRow, its statements, and the error it returned
Call(kind, stmts, err) == [call |-> kind, stmts |-> stmts, err |-> err]

\* the sets of calls of one operation the driver may fail
FaultSets(labels) == {f \in SUBSET labels : Cardinality(f) <= MaxFaults}

\* the verbs of the statements of a log, in the order they were sent
RECURSIVE Flatten(_)
Flatten(log) ==
    IF log = <<>> THEN <<>>
    ELSE Head(log).stmts \o Flatten(Tail(log))

Verbs(log) == [i \in 1..Len(Flatten(log)) |-> Flatten(log)[i].sql]

\* positions of a verb in the statements of a log
Positions(log, verb) == {i \in 1..Len(Verbs(log)) : Verbs(log)[i] = verb}

Issued(log, verb) == Positions(log, verb) # {}

NoOp == [op |-> "none", diags |-> <<>>, log |-> <<>>, prior |-> Null, plan |-> Null,
         resp |-> Null, faults |-> {}, opened |-> 0, closed |-> 0, alt |-> Null]

\* what the host tool keeps of a response: a delete that reported no error removes
\* the record whatever the handler left in the response state
Persisted(isDelete, diags, resp) ==
    IF isDelete /\ diags = <<>> THEN Null ELSE resp

----------------------------------------------------------------------------
(* Changefeed resource *)

CfPlans ==
    [table : TableNames, bucket : Buckets, token : Tokens, database : DbNames,
     jobID : {UnknownValue}]

\* "SET DATABASE=%s; CANCEL JOB %s;" of Update and Delete
CancelQuery(db, id) ==
    <<Stmt("SET DATABASE", <<db>>), Stmt("CANCEL JOB", <<id>>)>>

\* "SET DATABASE=%s; CREATE CHANGEFEED FOR TABLE %s INTO 'gs://%s?AUTH=specified&CREDENTIALS=%s';"
CreateChangefeedQuery(data) ==
    <<Stmt("SET DATABASE", <<StripQuotes(String(data.database))>>),
      Stmt("CREATE CHANGEFEED",
           <<StripQuotes(String(data.table)), StripQuotes(String(data.bucket)),
             StripQuotes(String(data.token))>>)>>

\* the cluster cancels a job that runs; any other identifier is an error
CancelSucceeds(running, id, failed) ==
    /\ ~failed
    /\ Ident(id) \in running

CfFaults == {"connect", "cancel", "create", "norow"}

CfResult(state, diags, log, running, cancelled, next, opened) ==
    [state |-> state, diags |-> diags, log |-> log, running |-> running,
     cancelled |-> cancelled, next |-> next, opened |-> opened, closed |-> opened]

\* a Scan that takes sql.ErrNoRows for success and keeps the empty identifier
CfCreateTail_NoRowIsSuccess(data, prior, log, running, cancelled, next, fail, title) ==
    LET query == CreateChangefeedQuery(data)
        id == ToString(next)
    IN  IF "create" \in fail
        THEN CfResult(prior, <<title>>, Append(log, Call("QueryRow", query, "error")),
                      running, cancelled, next, 1)
        ELSE IF "norow" \in fail
        THEN CfResult([data EXCEPT !.jobID = ""], <<>>,
                      Append(log, Call("QueryRow", query, "ErrNoRows")),
                      running \cup {id}, cancelled, next + 1, 1)
        ELSE CfResult([data EXCEPT !.jobID = id], <<>>,
                      Append(log, Call("QueryRow", query, "nil")),
                      running \cup {id}, cancelled, next + 1, 1)

\* a tail that saves the record whatever the statement returned, with the identifier
\* variable as the failed Scan left it
CfCreateTail_SavesOnError(data, prior, log, running, cancelled, next, fail, title) ==
    LET query == CreateChangefeedQuery(data)
        id == ToString(next)
    IN  IF "create" \in fail
        THEN CfResult([data EXCEPT !.jobID = ""], <<title>>,
                      Append(log, Call("QueryRow", query, "error")),
                      running, cancelled, next, 1)
        ELSE IF "norow" \in fail
        THEN CfResult([data EXCEPT !.jobID = ""], <<title>>,
                      Append(log, Call("QueryRow", query, "ErrNoRows")),
                      running \cup {id}, cancelled, next + 1, 1)
        ELSE CfResult([data EXCEPT !.jobID = id], <<>>,
                      Append(log, Call("QueryRow", query, "nil")),
                      running \cup {id}, cancelled, next + 1, 1)

\* client.QueryRow(query).Scan(&id) of Create and Update, and what follows it
CfCreateTail(data, prior, log, running, cancelled, next, fail, title) ==
    LET query == CreateChangefeedQuery(data)
        id == ToString(next)
    IN  IF "create" \in fail
        THEN CfResult(prior, <<title>>, Append(log, Call("QueryRow", query, "error")),
                      running, cancelled, next, 1)
        ELSE IF "norow" \in fail
        THEN CfResult(prior, <<title>>, Append(log, Call("QueryRow", query, "ErrNoRows")),
                      running \cup {id}, cancelled, next + 1, 1)
        ELSE CfResult([data EXCEPT !.jobID = id], <<>>,
                      Append(log, Call("QueryRow", query, "nil")),
                      running \cup {id}, cancelled, next + 1, 1)

ChangefeedCreate(data, running, cancelled, next, fail) ==
    IF "connect" \in fail
    THEN CfResult(Null, <<"Failed to connect to cockroach">>, <<>>, running, cancelled, next, 0)
    ELSE CfCreateTail(data, Null, <<>>, running, cancelled, next, fail,
                      "Create changefeed error")

\* Read sets the state it was given
ChangefeedRead(data) == data

\* an Update that creates the new job first and cancels the old one after it
ChangefeedUpdate_CreateFirst(data, data2, running, cancelled, next, fail) ==
    IF "connect" \in fail
    THEN CfResult(data2, <<"Failed to connect to cockroach">>, <<>>, running, cancelled, next, 0)
    ELSE
    LET db == StripQuotes(String(data.database))
        id == StripQuotes(String(data2.jobID))
        deleteQuery == CancelQuery(db, id)
        cr == CfCreateTail(data, data2, <<>>, running, cancelled, next, fail,
                           "Update changefeed error (create)")
    IN  IF cr.diags # <<>> THEN cr
        ELSE IF ~CancelSucceeds(cr.running, id, "cancel" \in fail)
        THEN [cr EXCEPT !.state = data2, !.diags = <<"Update changefeed error (cancel)">>,
                        !.log = Append(cr.log, Call("Exec", deleteQuery, "error"))]
        ELSE [cr EXCEPT !.log = Append(cr.log, Call("Exec", deleteQuery, "nil")),
                        !.running = @ \ {Ident(id)},
                        !.cancelled = @ \cup {Ident(id)}]

\* an Update that logs the failed cancel and creates the new job all the same
ChangefeedUpdate_IgnoresCancelError(data, data2, running, cancelled, next, fail) ==
    IF "connect" \in fail
    THEN CfResult(data2, <<"Failed to connect to cockroach">>, <<>>, running, cancelled, next, 0)
    ELSE
    LET db == StripQuotes(String(data.database))
        id == StripQuotes(String(data2.jobID))
        deleteQuery == CancelQuery(db, id)
    IN  IF ~CancelSucceeds(running, id, "cancel" \in fail)
        THEN CfCreateTail(data, data2, <<Call("Exec", deleteQuery, "error")>>,
                          running, cancelled, next, fail,
                          "Update changefeed error (create)")
        ELSE CfCreateTail(data, data2, <<Call("Exec", deleteQuery, "nil")>>,
                          running \ {Ident(id)}, cancelled \cup {Ident(id)}, next, fail,
                          "Update changefeed error (create)")

ChangefeedUpdate(data, data2, running, cancelled, next, fail) ==
    IF "connect" \in fail
    THEN CfResult(data2, <<"Failed to connect to cockroach">>, <<>>, running, cancelled, next, 0)
    ELSE
    LET db == StripQuotes(String(data.database))
        id == StripQuotes(String(data2.jobID))
        deleteQuery == CancelQuery(db, id)
    IN  IF ~CancelSucceeds(running, id, "cancel" \in fail)
        THEN CfResult(data2, <<"Update changefeed error (cancel)">>,
                      <<Call("Exec", deleteQuery, "error")>>, running, cancelled, next, 1)
        ELSE CfCreateTail(data, data2, <<Call("Exec", deleteQuery, "nil")>>,
                          running \ {Ident(id)}, cancelled \cup {Ident(id)}, next, fail,
                          "Update changefeed error (create)")

\* a Delete that sends the statement a second time when the first attempt failed
ChangefeedDelete_Retries(data, running, cancelled, next, fail) ==
    IF "connect" \in fail
    THEN CfResult(data, <<"Failed to connect to cockroach">>, <<>>, running, cancelled, next, 0)
    ELSE
    LET db == StripQuotes(String(data.database))
        id == StripQuotes(String(data.jobID))
        query == CancelQuery(db, id)
    IN  IF ~CancelSucceeds(running, id, "cancel" \in fail)
        THEN IF ~CancelSucceeds(running, id, FALSE)
             THEN CfResult(data, <<"Delete changefeed error">>,
                           <<Call("Exec", query, "error"), Call("Exec", query, "error")>>,
                           running, cancelled, next, 1)
             ELSE CfResult(data, <<>>,
                           <<Call("Exec", query, "error"), Call("Exec", query, "nil")>>,
                           running \ {Ident(id)}, cancelled \cup {Ident(id)}, next, 1)
        ELSE CfResult(data, <<>>, <<Call("Exec", query, "nil")>>,
                      running \ {Ident(id)}, cancelled \cup {Ident(id)}, next, 1)

ChangefeedDelete(data, running, cancelled, next, fail) ==
    IF "connect" \in fail
    THEN CfResult(data, <<"Failed to connect to cockroach">>, <<>>, running, cancelled, next, 0)
    ELSE
    LET db == StripQuotes(String(data.database))
        id == StripQuotes(String(data.jobID))
        query == CancelQuery(db, id)
    IN  IF ~CancelSucceeds(running, id, "cancel" \in fail)
        THEN CfResult(data, <<"Delete changefeed error">>,
                      <<Call("Exec", query, "error")>>, running, cancelled, next, 1)
        ELSE CfResult(data, <<>>, <<Call("Exec", query, "nil")>>,
                      running \ {Ident(id)}, cancelled \cup {Ident(id)}, next, 1)

CfApply(op, plan, fail, r) ==
    /\ cfState' = Persisted(op = "cfDelete", r.diags, r.state)
    /\ jobsRunning' = r.running
    /\ jobsCancelled' = r.cancelled
    /\ nextJob' = r.next
    /\ last' = [op |-> op, diags |-> r.diags, log |-> r.log, prior |-> cfState,
                plan |-> plan, resp |-> r.state, faults |-> fail, opened |-> r.opened,
                closed |-> r.closed, alt |-> Null]
    /\ UNCHANGED <<clusterDbVars, clusterUserVars, dbState, userState>>

CfCreate ==
    /\ cfState = Null
    /\ nextJob <= MaxJobs
    /\ \E plan \in CfPlans, fail \in FaultSets(CfFaults \ {"cancel"}) :
          CfApply("cfCreate", plan, fail,
                  ChangefeedCreate(plan, jobsRunning, jobsCancelled, nextJob, fail))

CfRead ==
    /\ cfState # Null
    /\ cfState' = ChangefeedRead(cfState)
    /\ last' = [NoOp EXCEPT !.op = "cfRead", !.prior = cfState,
                              !.resp = ChangefeedRead(cfState)]
    /\ UNCHANGED <<clusterDbVars, clusterUserVars, clusterJobVars, dbState, userState>>

CfUpdate ==
    /\ cfState # Null
    /\ nextJob <= MaxJobs
    /\ \E plan \in CfPlans, fail \in FaultSets(CfFaults) :
          CfApply("cfUpdate", plan, fail,
                  ChangefeedUpdate(plan, cfState, jobsRunning, jobsCancelled, nextJob, fail))

CfDelete ==
    /\ cfState # Null
    /\ \E fail \in FaultSets({"connect", "cancel"}) :
          CfApply("cfDelete", Null, fail,
                  ChangefeedDelete(cfState, jobsRunning, jobsCancelled, nextJob, fail))

----------------------------------------------------------------------------
(* Database resource *)

DbPlans == [name : DbNames]

\* the value a string literal '...' holds: the text between the apostrophes
Literal(t) == IF Len(t) = 1 THEN t[1] ELSE "<other>"

\* fmt.Sprintf("CREATE DATABASE %s", data.Name.String())
CreateDatabaseSql(data) == <<Stmt("CREATE DATABASE", <<String(data.name)>>)>>

\* fmt.Sprintf("DROP DATABASE %s", data.Name.String())
DropDatabaseSql(data) == <<Stmt("DROP DATABASE", <<String(data.name)>>)>>

\* queryName of Read: the name in state with its quotes removed
QueryName(data) == StripQuotes(String(data.name))

\* "SELECT name FROM crdb_internal.databases WHERE name = '%s'"
SelectDatabaseSql(queryName) == <<Stmt("SELECT name FROM crdb_internal.databases", <<queryName>>)>>

DbResult(state, diags, log, dbs, tbls, opened) ==
    [state |-> state, diags |-> diags, log |-> log, databases |-> dbs, tables |-> tbls,
     opened |-> opened, closed |-> opened]

\* a Create that looks the name up first and adopts a database that exists
DatabaseCreate_ChecksExistence(data, dbs, tbls, fail) ==
    IF "connect" \in fail
    THEN DbResult(Null, <<"Failed to connect to cockroach">>, <<>>, dbs, tbls, 0)
    ELSE
    LET sql == CreateDatabaseSql(data)
        name == Ident(sql[1].args[1])
        q == SelectDatabaseSql(QueryName(data))
    IN  IF name \in dbs
        THEN DbResult(data, <<>>, <<Call("QueryRow", q, "nil")>>, dbs, tbls, 1)
        ELSE IF "exec" \in fail \/ name = "<syntax error>"
        THEN DbResult(Null, <<"Create db error">>,
                      <<Call("QueryRow", q, "ErrNoRows"), Call("Exec", sql, "error")>>,
                      dbs, tbls, 1)
        ELSE DbResult(data, <<>>,
                      <<Call("QueryRow", q, "ErrNoRows"), Call("Exec", sql, "nil")>>,
                      dbs \cup {name}, tbls, 1)

DatabaseCreate(data, dbs, tbls, fail) ==
    IF "connect" \in fail
    THEN DbResult(Null, <<"Failed to connect to cockroach">>, <<>>, dbs, tbls, 0)
    ELSE
    LET sql == CreateDatabaseSql(data)
        name == Ident(sql[1].args[1])
    IN  IF "exec" \in fail \/ name \in dbs \/ name = "<syntax error>"
        THEN DbResult(Null, <<"Create db error">>, <<Call("Exec", sql, "error")>>, dbs, tbls, 1)
        ELSE DbResult(data, <<>>, <<Call("Exec", sql, "nil")>>, dbs \cup {name}, tbls, 1)

\* client.QueryRow(q).Scan(&name): the error and the name scanned
ScanDatabaseName(queryName, dbs, failed) ==
    IF failed THEN [err |-> "error", name |-> ""]
    ELSE IF Literal(queryName) \in dbs THEN [err |-> "nil", name |-> Literal(queryName)]
    ELSE [err |-> "ErrNoRows", name |-> ""]

\* a Read that saves the record at its end, after the removal
DatabaseRead_WritesBack(data, dbs, tbls, fail) ==
    IF "connect" \in fail
    THEN DbResult(data, <<"Failed to connect to cockroach">>, <<>>, dbs, tbls, 0)
    ELSE
    LET queryName == QueryName(data)
        q == SelectDatabaseSql(queryName)
        row == ScanDatabaseName(queryName, dbs, "query" \in fail)
    IN  DbResult([data EXCEPT !.name = row.name], <<>>, <<Call("QueryRow", q, row.err)>>,
                 dbs, tbls, 1)

DatabaseRead(data, dbs, tbls, fail) ==
    IF "connect" \in fail
    THEN DbResult(data, <<"Failed to connect to cockroach">>, <<>>, dbs, tbls, 0)
    ELSE
    LET queryName == QueryName(data)
        q == SelectDatabaseSql(queryName)
        row == ScanDatabaseName(queryName, dbs, "query" \in fail)
        \* if err == sql.ErrNoRows { data.Name = name; RemoveResource }
        data1 == IF row.err = "ErrNoRows" THEN [data EXCEPT !.name = row.name] ELSE data
        state1 == IF row.err = "ErrNoRows" THEN Null ELSE data
        \* if types.StringValue(name) != data.Name { data.Name = name; State.Set }
        state2 == IF row.name # data1.name THEN [data1 EXCEPT !.name = row.name] ELSE state1
    IN  DbResult(state2, <<>>, <<Call("QueryRow", q, row.err)>>, dbs, tbls, 1)

\* Update sets the plan as the state and talks to nobody
DatabaseUpdate(data) == data

DatabaseDelete(data, dbs, tbls, fail) ==
    IF "connect" \in fail
    THEN DbResult(data, <<"Failed to connect to cockroach">>, <<>>, dbs, tbls, 0)
    ELSE
    LET sql == DropDatabaseSql(data)
        name == Ident(sql[1].args[1])
    IN  IF "exec" \in fail \/ name \notin dbs
        THEN DbResult(data, <<"Delete db error">>, <<Call("Exec", sql, "error")>>, dbs, tbls, 1)
        ELSE DbResult(data, <<>>, <<Call("Exec", sql, "nil")>>,
                      dbs \ {name}, tbls \ {name}, 1)

DbApply(op, plan, fail, r) ==
    /\ dbState' = Persisted(op = "dbDelete", r.diags, r.state)
    /\ databases' = r.databases
    /\ tables' = r.tables
    /\ last' = [op |-> op, diags |-> r.diags, log |-> r.log, prior |-> dbState,
                plan |-> plan, resp |-> r.state, faults |-> fail, opened |-> r.opened,
                closed |-> r.closed, alt |-> Null]
    /\ UNCHANGED <<clusterUserVars, clusterJobVars, userState, cfState>>

DbCreate ==
    /\ dbState = Null
    /\ \E plan \in DbPlans, fail \in FaultSets({"connect", "exec"}) :
          DbApply("dbCreate", plan, fail, DatabaseCreate(plan, databases, tables, fail))

DbRead ==
    /\ dbState # Null
    /\ \E fail \in FaultSets({"connect", "query"}) :
          DbApply("dbRead", Null, fail, DatabaseRead(dbState, databases, tables, fail))

\* an Update that renames the database in the cluster to the planned name
DbUpdate_RenamesInCluster ==
    /\ dbState # Null
    /\ \E plan \in DbPlans :
          LET sql == <<Stmt("ALTER DATABASE RENAME TO", <<String(dbState.name), String(plan.name)>>)>>
              ok == dbState.name \in databases /\ plan.name \notin databases
              dbs == IF ok THEN (databases \ {dbState.name}) \cup {plan.name} ELSE databases
              tbls == IF ok /\ dbState.name \in tables
                      THEN (tables \ {dbState.name}) \cup {plan.name} ELSE tables
          IN  DbApply("dbUpdate", plan, {},
                      DbResult(IF ok THEN plan ELSE dbState,
                               IF ok THEN <<>> ELSE <<"Update db error">>,
                               <<Call("Exec", sql, IF ok THEN "nil" ELSE "error")>>,
                               dbs, tbls, 1))

DbUpdate ==
    /\ dbState # Null
    /\ \E plan \in DbPlans :
          DbApply("dbUpdate", plan, {},
                  DbResult(DatabaseUpdate(plan), <<>>, <<>>, databases, tables, 0))

DbDelete ==
    /\ dbState # Null
    /\ \E fail \in FaultSets({"connect", "exec"}) :
          DbApply("dbDelete", Null, fail, DatabaseDelete(dbState, databases, tables, fail))

----------------------------------------------------------------------------
(* User resource *)

\* var privilegeSlice = []string{"select", "update", "insert", "delete"}
privilegeSlice == <<"select", "update", "insert", "delete">>

\* slices.Contains over texts: the text is exactly one of the names
Contains(slice, text) == \E i \in 1..Len(slice) : text = <<slice[i]>>

UserPlans ==
    [username : UserNames, password : Passwords, database : DbNames,
     privileges : PrivLists]

\* the loop over data.Privileges.Elements(): stops at the first name that is not in
\* privilegeSlice, else appends s.String() and, before the last element, ", "
RECURSIVE PrivilegeLoop(_, _, _)
PrivilegeLoop(privList, i, privString) ==
    IF i > Len(privList)
    THEN [ok |-> TRUE, privString |-> privString, invalid |-> <<>>]
    ELSE IF ~Contains(privilegeSlice, StripQuotes(String(privList[i])))
    THEN [ok |-> FALSE, privString |-> privString, invalid |-> String(privList[i])]
    ELSE PrivilegeLoop(privList, i + 1,
                       privString \o String(privList[i])
                                  \o (IF i < Len(privList) THEN <<Sep>> ELSE <<>>))

\* the privilege names the cluster reads from a rendered list
PrivilegeNames(text) == {text[i] : i \in {j \in 1..Len(text) : text[j] # Sep}}

\* "SET DATABASE=%s; CREATE USER %s WITH PASSWORD '%s';"
CreateUserSql(data) ==
    <<Stmt("SET DATABASE", <<String(data.database)>>),
      Stmt("CREATE USER", <<String(data.username), StripQuotes(String(data.password))>>)>>

\* "ALTER DEFAULT PRIVILEGES FOR ALL ROLES GRANT %s ON TABLES TO %s;"
AlterGrantSql(privileges, username) ==
    <<Stmt("ALTER DEFAULT PRIVILEGES GRANT", <<privileges, String(username)>>)>>

\* "GRANT %s ON * TO %s;"
GrantSql(privileges, username) ==
    <<Stmt("GRANT ON *", <<privileges, String(username)>>)>>

\* "SET DATABASE=%s; ALTER DEFAULT PRIVILEGES FOR ALL ROLES REVOKE ALL ON TABLES FROM %s; "
AlterRevokeSql(database, username) ==
    <<Stmt("SET DATABASE", <<String(database)>>),
      Stmt("ALTER DEFAULT PRIVILEGES REVOKE ALL", <<String(username)>>)>>

\* "REVOKE ALL ON * FROM %s; "
RevokeSql(username) == <<Stmt("REVOKE ALL ON *", <<String(username)>>)>>

\* "DROP USER %s;"
DropUserSql(username) == <<Stmt("DROP USER", <<String(username)>>)>>

\* "SET DATABASE=%s; SHOW TABLES;" of Update and Delete
ShowTablesSql(database) ==
    <<Stmt("SET DATABASE", <<String(database)>>), Stmt("SHOW TABLES", <<>>)>>

\* "SHOW TABLES;" of Create and of the second half of Update, in the session's database
ShowTablesBareSql == <<Stmt("SHOW TABLES", <<>>)>>

\* "SET DATABASE=%s; SHOW GRANTS FOR %s"
ShowGrantsSql(data) ==
    <<Stmt("SET DATABASE", <<String(data.database)>>),
      Stmt("SHOW GRANTS FOR", <<StripQuotes(String(data.username))>>)>>

\* client.QueryRow(...).Scan(&tables): sql.ErrNoRows when the database holds no table;
\* with a row, Scan of the many columns into one string is an error as well
ProbeTables(d, dbs, tbls, failed) ==
    IF failed \/ d \notin dbs THEN "error"
    ELSE IF d \in tbls THEN "scan error"
    ELSE "ErrNoRows"

UResult(state, diags, log, c, opened, closed) ==
    [state |-> state, diags |-> diags, log |-> log, users |-> c.users,
     grants |-> c.grants, defaults |-> c.defaults, opened |-> opened, closed |-> closed]

\* the cluster runs GRANT <privileges> ON * TO <username> in database d
RunGrant(c, privileges, u, d, dbs, tbls, failed) ==
    IF failed \/ privileges = <<>> \/ d \notin dbs \/ d \notin tbls \/ u \notin c.users
    THEN [c |-> c, err |-> "error"]
    ELSE [c |-> [c EXCEPT !.grants[u, d] = @ \cup PrivilegeNames(privileges)],
          err |-> "nil"]

\* the cluster runs ALTER DEFAULT PRIVILEGES ... GRANT <privileges> ... TO <username>
RunAlterGrant(c, privileges, u, d, dbs, failed) ==
    IF failed \/ privileges = <<>> \/ d \notin dbs \/ u \notin c.users
    THEN [c |-> c, err |-> "error"]
    ELSE [c |-> [c EXCEPT !.defaults[u, d] = @ \cup PrivilegeNames(privileges)],
          err |-> "nil"]

\* the cluster runs alter + [revoke +] delete as one batch: all of it or nothing.
\* DROP USER fails for a user that does not exist or still holds privileges.
RunDropBatch(c, u, d, withRevoke, dbs, tbls, failed) ==
    LET c1 == [c EXCEPT !.defaults[u, d] = {}]
        c2 == IF withRevoke THEN [c1 EXCEPT !.grants[u, d] = {}] ELSE c1
        holds == \E e \in DbNames : c2.grants[u, e] # {} \/ c2.defaults[u, e] # {}
    IN  IF \/ failed
           \/ d \notin dbs
           \/ u \notin c.users
           \/ (withRevoke /\ d \notin tbls)
           \/ holds
        THEN [c |-> c, err |-> "error"]
        ELSE [c |-> [c2 EXCEPT !.users = @ \ {u}], err |-> "nil"]

\* a privilege loop that appends every name without looking it up
RECURSIVE RenderUnchecked(_, _, _)
RenderUnchecked(privList, i, privString) ==
    IF i > Len(privList)
    THEN [ok |-> TRUE, privString |-> privString, invalid |-> <<>>]
    ELSE RenderUnchecked(privList, i + 1,
                         privString \o String(privList[i])
                                    \o (IF i < Len(privList) THEN <<Sep>> ELSE <<>>))

ValidatePrivileges_Unchecked(privList) == RenderUnchecked(privList, 1, <<>>)

\* a privilege loop that puts the separator after every name, the last included
RECURSIVE RenderTrailingSep(_, _, _)
RenderTrailingSep(privList, i, privString) ==
    IF i > Len(privList)
    THEN [ok |-> TRUE, privString |-> privString, invalid |-> <<>>]
    ELSE IF ~Contains(privilegeSlice, StripQuotes(String(privList[i])))
    THEN [ok |-> FALSE, privString |-> privString, invalid |-> String(privList[i])]
    ELSE RenderTrailingSep(privList, i + 1, privString \o String(privList[i]) \o <<Sep>>)

ValidatePrivileges_TrailingSep(privList) == RenderTrailingSep(privList, 1, <<>>)

\* a privilege loop that goes through the whole list and reports the last name it
\* did not find
RECURSIVE ScanReportsLast(_, _, _, _)
ScanReportsLast(privList, i, privString, invalid) ==
    IF i > Len(privList)
    THEN [ok |-> invalid = <<>>, privString |-> privString, invalid |-> invalid]
    ELSE IF ~Contains(privilegeSlice, StripQuotes(String(privList[i])))
    THEN ScanReportsLast(privList, i + 1, privString, String(privList[i]))
    ELSE ScanReportsLast(privList, i + 1,
                         privString \o String(privList[i])
                                    \o (IF i < Len(privList) THEN <<Sep>> ELSE <<>>),
                         invalid)

ValidatePrivileges_ReportsLast(privList) == ScanReportsLast(privList, 1, <<>>, <<>>)

\* the check of the privilege names, as Create and Update make it
ValidatePrivileges(privList) == PrivilegeLoop(privList, 1, <<>>)

\* which grants follow the probe: only alter on sql.ErrNoRows, grant and alter otherwise
GrantsAfterProbe(err) ==
    IF err = "ErrNoRows" THEN <<"alter">> ELSE <<"grant", "alter">>

\* Create from its privilege loop on (the same lines close Update): validate,
\* CREATE USER, probe for tables, grant; the errors of the grants are dropped
UserCreateSteps(data, prior, log0, c, dbs, tbls, fail, probe) ==
    LET v == ValidatePrivileges(data.privileges)
        privileges == StripQuotes(v.privString)
        query == CreateUserSql(data)
        u == Ident(query[2].args[1])
        d == Ident(query[1].args[1])
        createFails == "createUser" \in fail \/ u \in c.users
        c1 == [c EXCEPT !.users = @ \cup {u}]
        log1 == Append(log0, Call("Exec", query, "nil"))
        perr == ProbeTables(d, dbs, tbls, probe \in fail)
        log2 == Append(log1, Call("QueryRow", ShowTablesBareSql, perr))
        branch == GrantsAfterProbe(perr)
        g == IF branch[1] = "grant"
             THEN RunGrant(c1, privileges, u, d, dbs, tbls, "grant" \in fail)
             ELSE [c |-> c1, err |-> "none"]
        log3 == IF branch[1] = "grant"
                THEN Append(log2, Call("Exec", GrantSql(privileges, data.username), g.err))
                ELSE log2
        a == RunAlterGrant(g.c, privileges, u, d, dbs, "alter" \in fail)
        log4 == Append(log3, Call("Exec", AlterGrantSql(privileges, data.username), a.err))
    IN  IF ~v.ok
        THEN UResult(prior, <<"Invalid privilege">>, log0, c, 1, 1)
        ELSE IF createFails
        THEN UResult(prior, <<"Create user error">>,
                     Append(log0, Call("Exec", query, "error")), c, 1, 1)
        ELSE UResult(data, <<>>, log4, a.c, 1, 1)

UserCreate(data, c, dbs, tbls, fail) ==
    IF "connect" \in fail
    THEN UResult(Null, <<"Failed to connect to cockroach">>, <<>>, c, 0, 0)
    ELSE UserCreateSteps(data, Null, <<>>, c, dbs, tbls, fail, "probe")

\* a Read that reports the failed grants query and keeps the record
UserReadQueryFailed_Reports(data, log, c) ==
    UResult(data, <<"Read user error">>, log, c, 1, 0)

\* Read after the grants query failed: the resource is removed, nothing is reported,
\* and the return comes before the deferred Close is registered
UserReadQueryFailed(data, log, c) == UResult(Null, <<>>, log, c, 1, 0)

\* privilegeReadSlice of Read: the distinct privilege names of the rows SHOW GRANTS
\* returns for the user in the database, in the order of the rows
privilegeReadSlice(c, u, d) ==
    SelectSeq(privilegeSlice, LAMBDA p : p \in c.grants[u, d])

\* a Read that sets the privileges of the record to the names it collected
UserRead_RefreshesPrivileges(data, c, dbs, tbls, fail) ==
    IF "connect" \in fail
    THEN UResult(data, <<"Failed to connect to cockroach">>, <<>>, c, 0, 0)
    ELSE
    LET q == ShowGrantsSql(data)
        d == Ident(q[1].args[1])
        u == Ident(q[2].args[1])
        failed == "query" \in fail \/ d \notin dbs \/ u \notin c.users
    IN  IF failed
        THEN UserReadQueryFailed(data, <<Call("Query", q, "error")>>, c)
        ELSE UResult([data EXCEPT !.privileges = privilegeReadSlice(c, u, d)], <<>>,
                     <<Call("Query", q, "nil")>>, c, 1, 1)

UserRead(data, c, dbs, tbls, fail) ==
    IF "connect" \in fail
    THEN UResult(data, <<"Failed to connect to cockroach">>, <<>>, c, 0, 0)
    ELSE
    LET q == ShowGrantsSql(data)
        d == Ident(q[1].args[1])
        u == Ident(q[2].args[1])
        failed == "query" \in fail \/ d \notin dbs \/ u \notin c.users
    IN  IF failed
        THEN UserReadQueryFailed(data, <<Call("Query", q, "error")>>, c)
        ELSE UResult(data, <<>>, <<Call("Query", q, "nil")>>, c, 1, 1)

\* a target that names the planned username whether or not it changed
DropTarget_AlwaysPlanned(data, state) == data.username

\* the user name the revoke and drop statements of Update name
DropTarget(data, state) ==
    IF state.username # data.username THEN state.username ELSE data.username

\* the probe and the alter + [revoke +] delete batch of Update and Delete, for the
\* user `username` in the database `database`
UserDropSteps(username, database, c, dbs, tbls, fail) ==
    LET alter == AlterRevokeSql(database, username)
        revoke == RevokeSql(username)
        delete == DropUserSql(username)
        probeSql == ShowTablesSql(database)
        d == Ident(probeSql[1].args[1])
        u == Ident(delete[1].args[1])
        perr == ProbeTables(d, dbs, tbls, "probe" \in fail)
        noTables == perr = "ErrNoRows"
        batch == IF noTables THEN alter \o delete ELSE alter \o revoke \o delete
        r == RunDropBatch(c, u, d, ~noTables, dbs, tbls, "drop" \in fail)
    IN  [c |-> r.c, err |-> r.err,
         log |-> <<Call("QueryRow", probeSql, perr), Call("Exec", batch, r.err)>>,
         title |-> IF noTables THEN "Delete user error (no tables)"
                   ELSE "Delete user error (tables)"]

\* an Update that sets the plan as the state as soon as the old user is dropped
UserUpdate_SavesAfterDrop(data, state, c, dbs, tbls, fail) ==
    IF "connect" \in fail
    THEN UResult(state, <<"Failed to connect to cockroach">>, <<>>, c, 0, 0)
    ELSE
    LET dr == UserDropSteps(DropTarget(data, state), data.database, c, dbs, tbls, fail)
    IN  IF dr.err # "nil"
        THEN UResult(state, <<dr.title>>, dr.log, c, 1, 1)
        ELSE UserCreateSteps(data, data, dr.log, dr.c, dbs, tbls, fail, "probe2")

\* an Update that puts the prior user back when the CREATE USER of the plan failed
UserUpdate_Compensates(data, state, c, dbs, tbls, fail) ==
    IF "connect" \in fail
    THEN UResult(state, <<"Failed to connect to cockroach">>, <<>>, c, 0, 0)
    ELSE
    LET dr == UserDropSteps(DropTarget(data, state), data.database, c, dbs, tbls, fail)
        cr == UserCreateSteps(data, state, dr.log, dr.c, dbs, tbls, fail, "probe2")
    IN  IF dr.err # "nil"
        THEN UResult(state, <<dr.title>>, dr.log, c, 1, 1)
        ELSE IF cr.diags = <<"Create user error">>
        THEN UResult(state, cr.diags,
                     Append(cr.log, Call("Exec", CreateUserSql(state), "nil")),
                     [users |-> cr.users \cup {state.username}, grants |-> cr.grants,
                      defaults |-> cr.defaults], 1, 1)
        ELSE cr

UserUpdate(data, state, c, dbs, tbls, fail) ==
    IF "connect" \in fail
    THEN UResult(state, <<"Failed to connect to cockroach">>, <<>>, c, 0, 0)
    ELSE
    LET dr == UserDropSteps(DropTarget(data, state), data.database, c, dbs, tbls, fail)
    IN  IF dr.err # "nil"
        THEN UResult(state, <<dr.title>>, dr.log, c, 1, 1)
        ELSE UserCreateSteps(data, state, dr.log, dr.c, dbs, tbls, fail, "probe2")

UserDelete(data, c, dbs, tbls, fail) ==
    IF "connect" \in fail
    THEN UResult(data, <<"Failed to connect to cockroach">>, <<>>, c, 0, 0)
    ELSE
    LET dr == UserDropSteps(data.username, data.database, c, dbs, tbls, fail)
    IN  IF dr.err # "nil"
        THEN UResult(data, <<dr.title>>, dr.log, c, 1, 1)
        ELSE UResult(data, <<>>, dr.log, dr.c, 1, 1)

Cluster == [users |-> users, grants |-> grants, defaults |-> defaults]

\* Delete of the prior record followed, when it reported no error, by Create of the
\* plan, with the same calls failed as in Update (its second probe is Create's probe)
DeleteThenCreate(data, state, c, dbs, tbls, fail) ==
    LET del == UserDelete(state, c, dbs, tbls, fail \cap {"connect", "probe", "drop"})
        failCreate == (fail \cap {"createUser", "grant", "alter"})
                      \cup (IF "probe2" \in fail THEN {"probe"} ELSE {})
        cr == UserCreate(data, [users |-> del.users, grants |-> del.grants,
                                defaults |-> del.defaults], dbs, tbls, failCreate)
    IN  IF del.diags # <<>>
        THEN [log |-> del.log, users |-> del.users, grants |-> del.grants,
              defaults |-> del.defaults]
        ELSE [log |-> del.log \o cr.log, users |-> cr.users, grants |-> cr.grants,
              defaults |-> cr.defaults]

UserApply(op, plan, fail, r, alt) ==
    /\ userState' = Persisted(op = "userDelete", r.diags, r.state)
    /\ users' = r.users
    /\ grants' = r.grants
    /\ defaults' = r.defaults
    /\ last' = [op |-> op, diags |-> r.diags, log |-> r.log, prior |-> userState,
                plan |-> plan, resp |-> r.state, faults |-> fail, opened |-> r.opened,
                closed |-> r.closed, alt |-> alt]
    /\ UNCHANGED <<clusterDbVars, clusterJobVars, dbState, cfState>>

UsrCreate ==
    /\ userState = Null
    /\ \E plan \in UserPlans,
          fail \in FaultSets({"connect", "createUser", "probe", "grant", "alter"}) :
          UserApply("userCreate", plan, fail,
                    UserCreate(plan, Cluster, databases, tables, fail), Null)

UsrRead ==
    /\ userState # Null
    /\ \E fail \in FaultSets({"connect", "query"}) :
          UserApply("userRead", Null, fail,
                    UserRead(userState, Cluster, databases, tables, fail), Null)

UsrUpdate ==
    /\ userState # Null
    /\ \E plan \in UserPlans,
          fail \in FaultSets({"connect", "probe", "drop", "createUser", "probe2",
                              "grant", "alter"}) :
          UserApply("userUpdate", plan, fail,
                    UserUpdate(plan, userState, Cluster, databases, tables, fail),
                    DeleteThenCreate(plan, userState, Cluster, databases, tables, fail))

UsrDelete ==
    /\ userState # Null
    /\ \E fail \in FaultSets({"connect", "probe", "drop"}) :
          UserApply("userDelete", Null, fail,
                    UserDelete(userState, Cluster, databases, tables, fail), Null)

----------------------------------------------------------------------------
(* What happens to the cluster behind the provider's back *)

EnvOp == [NoOp EXCEPT !.op = "env"]

\* somebody creates a database
EnvCreateDatabase ==
    /\ \E d \in DbNames \ databases : databases' = databases \cup {d}
    /\ last' = EnvOp
    /\ UNCHANGED <<tables, clusterUserVars, clusterJobVars, dbState, userState, cfState>>

\* somebody creates a table: the default privileges of the database apply to it
EnvCreateTable ==
    /\ \E d \in databases \ tables :
          /\ tables' = tables \cup {d}
          /\ grants' = [u \in UserNames, e \in DbNames |->
                          IF e = d /\ u \in users THEN grants[u, e] \cup defaults[u, e]
                          ELSE grants[u, e]]
    /\ last' = EnvOp
    /\ UNCHANGED <<databases, users, defaults, clusterJobVars, dbState, userState, cfState>>

\* somebody drops a database with all that is in it
EnvDropDatabase ==
    /\ \E d \in databases :
          /\ databases' = databases \ {d}
          /\ tables' = tables \ {d}
    /\ last' = EnvOp
    /\ UNCHANGED <<clusterUserVars, clusterJobVars, dbState, userState, cfState>>

----------------------------------------------------------------------------
Init ==
    /\ databases = {}
    /\ tables = {}
    /\ users = {}
    /\ grants = [u \in UserNames, d \in DbNames |-> {}]
    /\ defaults = [u \in UserNames, d \in DbNames |-> {}]
    /\ jobsRunning = {}
    /\ jobsCancelled = {}
    /\ nextJob = 1
    /\ dbState = Null
    /\ userState = Null
    /\ cfState = Null
    /\ last = NoOp

NextChangefeed == CfCreate \/ CfRead \/ CfUpdate \/ CfDelete

SpecChangefeed == Init /\ [][NextChangefeed]_vars

NextDatabase ==
    DbCreate \/ DbRead \/ DbUpdate \/ DbDelete
    \/ EnvCreateDatabase \/ EnvCreateTable \/ EnvDropDatabase

SpecDatabase == Init /\ [][NextDatabase]_vars

\* the response of a call (its diagnostics, its state, what it sent) lives as long
\* as the call: the host tool takes it and the next call starts with a fresh one
Respond ==
    /\ last.op # "none"
    /\ last' = NoOp
    /\ UNCHANGED <<clusterDbVars, clusterUserVars, clusterJobVars, dbState, userState,
                   cfState>>

\* the host tool makes one call at a time
NextUser ==
    \/ last.op = "none" /\ UsrCreate
    \/ last.op = "none" /\ UsrRead
    \/ last.op = "none" /\ UsrUpdate
    \/ last.op = "none" /\ UsrDelete
    \/ last.op = "none" /\ EnvCreateTable
    \/ Respond

\* the user resource works in a cluster whose databases exist already
InitUser ==
    /\ databases = DbNames
    /\ tables = {}
    /\ users = {}
    /\ grants = [u \in UserNames, d \in DbNames |-> {}]
    /\ defaults = [u \in UserNames, d \in DbNames |-> {}]
    /\ jobsRunning = {}
    /\ jobsCancelled = {}
    /\ nextJob = 1
    /\ dbState = Null
    /\ userState = Null
    /\ cfState = Null
    /\ last = NoOp

SpecUser == InitUser /\ [][NextUser]_vars

\* the privilege loop and the removal of the quotes that follows it, by themselves:
\* `last.plan` is the list given, `last.diags` the error added, `last.alt` the
\* privileges text the statements would carry and the name the error detail prints
PrivilegeCheck ==
    /\ last.op = "privileges"
    /\ LET v == ValidatePrivileges(last.plan.privileges)
       IN  last' = [last EXCEPT
                      !.op = "privilegeCheck",
                      !.diags = IF v.ok THEN <<>> ELSE <<"Invalid privilege">>,
                      !.alt = [ok |-> v.ok,
                               privileges |-> StripQuotes(v.privString),
                               invalid |-> v.invalid]]
    /\ UNCHANGED <<clusterDbVars, clusterUserVars, clusterJobVars, dbState, userState,
                   cfState>>

InitPrivileges ==
    /\ databases = {}
    /\ tables = {}
    /\ users = {}
    /\ grants = [u \in UserNames, d \in DbNames |-> {}]
    /\ defaults = [u \in UserNames, d \in DbNames |-> {}]
    /\ jobsRunning = {}
    /\ jobsCancelled = {}
    /\ nextJob = 1
    /\ dbState = Null
    /\ userState = Null
    /\ cfState = Null
    /\ \E privList \in PrivSequences :
          last = [NoOp EXCEPT !.op = "privileges", !.plan = [privileges |-> privList]]

NextPrivileges == PrivilegeCheck

SpecPrivileges == InitPrivileges /\ [][NextPrivileges]_vars

----------------------------------------------------------------------------
(* Two user resources of one configuration, handled at the same time *)

\* The host tool calls the handlers of independent resources in parallel.  Here
\* `userState[i]` is the persisted record of resource i and `last` holds, per
\* resource, the call in flight: its operation, its position (`pc`), its plan, the
\* calls it made and its diagnostics.  One step is one call to the driver, so the
\* statements of the two resources interleave freely: the handlers take no lock.
\* The tables of the databases do not change, so a probe is taken together with the
\* call that follows it.

Instances == {1, 2}

\* each resource is created and updated at most this many times
MaxRaceOps == 3

\* two definitions of the same user in the same database
RacePlans ==
    [username : {"u1"}, password : Passwords, database : {"d1"},
     privileges : {<<"select">>, <<"insert">>}]

RaceIdle ==
    [op |-> [i \in Instances |-> "none"],
     pc |-> [i \in Instances |-> "idle"],
     plan |-> [i \in Instances |-> Null],
     prior |-> [i \in Instances |-> Null],
     diags |-> [i \in Instances |-> <<>>],
     log |-> [i \in Instances |-> <<>>],
     count |-> [i \in Instances |-> 0],
     overlapped |-> [i \in Instances |-> FALSE]]

\* a call of resource i falls between two calls of the other resource's operation
Overlaps(i) ==
    [j \in Instances |->
        IF j # i /\ last.pc[j] # "idle" /\ last.log[j] # <<>> THEN TRUE
        ELSE last.overlapped[j]]

RaceCluster(c) ==
    /\ users' = c.users
    /\ grants' = c.grants
    /\ defaults' = c.defaults

\* the host calls Create for a resource without a record and Update for one with
RaceStart ==
    \E i \in Instances, plan \in RacePlans :
        /\ last.pc[i] = "idle"
        /\ last.count[i] < MaxRaceOps
        /\ last' = [last EXCEPT
                      !.op[i] = IF userState[i] = Null THEN "userCreate" ELSE "userUpdate",
                      !.pc[i] = IF userState[i] = Null THEN "create" ELSE "batch",
                      !.plan[i] = plan,
                      !.prior[i] = userState[i],
                      !.diags[i] = <<>>,
                      !.log[i] = <<>>,
                      !.count[i] = @ + 1,
                      !.overlapped[i] = FALSE]
        /\ UNCHANGED <<clusterDbVars, clusterUserVars, clusterJobVars, dbState, userState,
                       cfState>>

\* Update: the probe and the alter + [revoke +] delete batch
RaceBatch ==
    \E i \in Instances :
        /\ last.pc[i] = "batch"
        /\ LET data == last.plan[i]
               dr == UserDropSteps(DropTarget(data, last.prior[i]), data.database,
                                   Cluster, databases, tables, {})
           IN  /\ RaceCluster(dr.c)
               /\ last' = [last EXCEPT
                             !.log[i] = dr.log,
                             !.diags[i] = IF dr.err # "nil" THEN <<dr.title>> ELSE <<>>,
                             !.pc[i] = IF dr.err # "nil" THEN "idle" ELSE "create",
                             !.overlapped = Overlaps(i)]
        /\ UNCHANGED <<clusterDbVars, clusterJobVars, dbState, userState, cfState>>

\* Create, and Update after its batch: the privilege loop and CREATE USER
RaceCreateUser ==
    \E i \in Instances :
        /\ last.pc[i] = "create"
        /\ LET data == last.plan[i]
               v == ValidatePrivileges(data.privileges)
               query == CreateUserSql(data)
               u == Ident(query[2].args[1])
               fails == u \in users
           IN  /\ users' = IF v.ok /\ ~fails THEN users \cup {u} ELSE users
               /\ last' = [last EXCEPT
                             !.log[i] = IF ~v.ok THEN @
                                        ELSE Append(@, Call("Exec", query,
                                                            IF fails THEN "error" ELSE "nil")),
                             !.diags[i] = IF ~v.ok THEN <<"Invalid privilege">>
                                          ELSE IF fails THEN <<"Create user error">>
                                          ELSE <<>>,
                             !.pc[i] = IF v.ok /\ ~fails THEN "grants" ELSE "idle",
                             !.overlapped = Overlaps(i)]
        /\ UNCHANGED <<clusterDbVars, grants, defaults, clusterJobVars, dbState, userState,
                       cfState>>

\* the probe for tables and, unless it returned sql.ErrNoRows, the GRANT ON *
RaceGrant ==
    \E i \in Instances :
        /\ last.pc[i] = "grants"
        /\ LET data == last.plan[i]
               privileges == StripQuotes(ValidatePrivileges(data.privileges).privString)
               query == CreateUserSql(data)
               u == Ident(query[2].args[1])
               d == Ident(query[1].args[1])
               perr == ProbeTables(d, databases, tables, FALSE)
               log1 == Append(last.log[i], Call("QueryRow", ShowTablesBareSql, perr))
               g == RunGrant(Cluster, privileges, u, d, databases, tables, FALSE)
           IN  IF GrantsAfterProbe(perr)[1] = "grant"
               THEN /\ RaceCluster(g.c)
                    /\ last' = [last EXCEPT
                                  !.log[i] = Append(log1,
                                                    Call("Exec",
                                                         GrantSql(privileges, data.username),
                                                         g.err)),
                                  !.pc[i] = "alter",
                                  !.overlapped = Overlaps(i)]
               ELSE /\ RaceCluster(Cluster)
                    /\ last' = [last EXCEPT !.log[i] = log1, !.pc[i] = "alter",
                                            !.overlapped = Overlaps(i)]
        /\ UNCHANGED <<clusterDbVars, clusterJobVars, dbState, userState, cfState>>

\* an Update that sets the state without sending the default-privileges grant
RaceAlter_SkipsAlter ==
    \E i \in Instances :
        /\ last.pc[i] = "alter"
        /\ last' = [last EXCEPT !.pc[i] = "idle", !.overlapped = Overlaps(i)]
        /\ userState' = [userState EXCEPT ![i] = last.plan[i]]
        /\ UNCHANGED <<clusterDbVars, clusterUserVars, clusterJobVars, dbState, cfState>>

\* ALTER DEFAULT PRIVILEGES ... GRANT, whose error is dropped, and State.Set
RaceAlter ==
    \E i \in Instances :
        /\ last.pc[i] = "alter"
        /\ LET data == last.plan[i]
               privileges == StripQuotes(ValidatePrivileges(data.privileges).privString)
               query == CreateUserSql(data)
               u == Ident(query[2].args[1])
               d == Ident(query[1].args[1])
               a == RunAlterGrant(Cluster, privileges, u, d, databases, FALSE)
           IN  /\ RaceCluster(a.c)
               /\ last' = [last EXCEPT
                             !.log[i] = Append(@, Call("Exec",
                                                       AlterGrantSql(privileges, data.username),
                                                       a.err)),
                             !.pc[i] = "idle",
                             !.overlapped = Overlaps(i)]
               /\ userState' = [userState EXCEPT ![i] = data]
        /\ UNCHANGED <<clusterDbVars, clusterJobVars, dbState, cfState>>

InitRace ==
    /\ databases = DbNames
    /\ tables \in {{}, {"d1"}}
    /\ users = {}
    /\ grants = [u \in UserNames, d \in DbNames |-> {}]
    /\ defaults = [u \in UserNames, d \in DbNames |-> {}]
    /\ jobsRunning = {}
    /\ jobsCancelled = {}
    /\ nextJob = 1
    /\ dbState = Null
    /\ userState = [i \in Instances |-> Null]
    /\ cfState = Null
    /\ last = RaceIdle

NextRace == RaceStart \/ RaceBatch \/ RaceCreateUser \/ RaceGrant \/ RaceAlter

SpecRace == InitRace /\ [][NextRace]_vars

----------------------------------------------------------------------------
(* Provider *)

ConfigFields == <<"host", "username", "password", "certpath">>

\* the configurations Configure may be given: each attribute null, unknown, empty or set
ProviderConfigs ==
    [host : {NullValue, UnknownValue, "", "crdb"},
     username : {NullValue, UnknownValue, "", "root"},
     password : {NullValue, UnknownValue, "", "pw"},
     certpath : {NullValue, UnknownValue, "", "ca.crt"}]

\* types.String.IsUnknown()
IsUnknown(v) == v = UnknownValue

\* types.String.ValueString(): the empty string for null and unknown
ValueString(v) == IF v = NullValue \/ v = UnknownValue THEN "" ELSE v

\* the summaries of the attribute errors, "Unknown Cockroach database host" and so on
TitleName(field) == IF field = "certpath" THEN "cert path" ELSE field
UnknownTitle(field) == "Unknown Cockroach database " \o TitleName(field)
MissingTitle(field) == "Missing Cockroach database " \o TitleName(field)

\* the diagnostics one run of four checks adds, in the order of the checks
RECURSIVE AttributeErrors(_, _, _)
AttributeErrors(data, i, stage) ==
    IF i > Len(ConfigFields) THEN <<>>
    ELSE LET field == ConfigFields[i]
             hit == IF stage = "unknown" THEN IsUnknown(data[field])
                    ELSE ValueString(data[field]) = ""
             title == IF stage = "unknown" THEN UnknownTitle(field) ELSE MissingTitle(field)
         IN  (IF hit THEN <<title>> ELSE <<>>) \o AttributeErrors(data, i + 1, stage)

\* "postgres://%s:%s@%s:26257?sslmode=verify-full&sslrootcert=%s", the quotes removed
generateConnectionString(model) ==
    <<"postgres://">> \o StripQuotes(String(model.username))
        \o <<":">> \o StripQuotes(String(model.password))
        \o <<"@">> \o StripQuotes(String(model.host))
        \o <<":26257?sslmode=verify-full&sslrootcert=">> \o StripQuotes(String(model.certpath))

\* a Configure that checks for unknown values only
Configure_SkipsMissingCheck(data) ==
    LET unknown == AttributeErrors(data, 1, "unknown")
    IN  IF unknown # <<>> THEN [diags |-> unknown, client |-> Null, opened |-> 0]
        ELSE [diags |-> <<>>,
              client |-> [ConnectionString |-> generateConnectionString(data)],
              opened |-> 0]

\* Configure: the unknown checks, return on error; the empty checks, return on error;
\* then the client with the connection string; no connection is opened here
Configure(data) ==
    LET unknown == AttributeErrors(data, 1, "unknown")
        missing == AttributeErrors(data, 1, "missing")
    IN  IF unknown # <<>> THEN [diags |-> unknown, client |-> Null, opened |-> 0]
        ELSE IF missing # <<>> THEN [diags |-> missing, client |-> Null, opened |-> 0]
        ELSE [diags |-> <<>>,
              client |-> [ConnectionString |-> generateConnectionString(data)],
              opened |-> 0]

\* `last.plan` is the configuration given, `last.resp` the client handed to the
\* resources (resp.ResourceData), Null when none is
ProviderConfigure ==
    /\ last.op = "config"
    /\ LET r == Configure(last.plan)
       IN  last' = [last EXCEPT !.op = "configure", !.diags = r.diags,
                                !.resp = r.client, !.opened = r.opened]
    /\ UNCHANGED <<clusterDbVars, clusterUserVars, clusterJobVars, dbState, userState,
                   cfState>>

InitProvider ==
    /\ databases = {}
    /\ tables = {}
    /\ users = {}
    /\ grants = [u \in UserNames, d \in DbNames |-> {}]
    /\ defaults = [u \in UserNames, d \in DbNames |-> {}]
    /\ jobsRunning = {}
    /\ jobsCancelled = {}
    /\ nextJob = 1
    /\ dbState = Null
    /\ userState = Null
    /\ cfState = Null
    /\ \E config \in ProviderConfigs : last = [NoOp EXCEPT !.op = "config", !.plan = config]

NextProvider == ProviderConfigure

SpecProvider == InitProvider /\ [][NextProvider]_vars

----------------------------------------------------------------------------
(* Properties *)

\* the privilege vocabulary the specification names
Vocabulary == {"select", "insert", "update", "delete"}

HasInvalid(privList) == \E i \in 1..Len(privList) : privList[i] \notin Vocabulary

Titles(diags) == {diags[i] : i \in 1..Len(diags)}

\* the statements of a log, in the order they were sent
Statements(log) == Flatten(log)

\* the errors the calls of a log returned that carry a statement with this verb
ErrorsOf(log, verb) ==
    {log[i].err : i \in {j \in 1..Len(log) :
                            \E k \in 1..Len(log[j].stmts) : log[j].stmts[k].sql = verb}}

\* C1: a user create whose privilege list holds a name outside the vocabulary ends
\* with an error, the validation error whenever it got a connection handle; it sends
\* no statement at all, leaves users, grants and default privileges of the cluster
\* as they were, and persists no record.
C1_CreateRejectsInvalidBeforeSql ==
    [][(last'.op = "userCreate" /\ HasInvalid(last'.plan.privileges)) =>
          /\ last'.diags # <<>>
          /\ ("connect" \notin last'.faults => last'.diags = <<"Invalid privilege">>)
          /\ last'.log = <<>>
          /\ UNCHANGED clusterUserVars
          /\ userState' = Null
          /\ last'.resp = Null]_vars

C1_Witness ==
    /\ last.op = "userCreate"
    /\ last.plan.privileges = <<"select", "bogus">>
    /\ last.diags = <<"Invalid privilege">>
    /\ last.opened = 1
    /\ userState = Null

\* C2: whenever a user update reports the validation error, it has sent no revoke,
\* no drop and no create statement.
C2_UpdateValidationErrorNoSql ==
    (last.op = "userUpdate" /\ "Invalid privilege" \in Titles(last.diags)) =>
        /\ ~Issued(last.log, "ALTER DEFAULT PRIVILEGES REVOKE ALL")
        /\ ~Issued(last.log, "REVOKE ALL ON *")
        /\ ~Issued(last.log, "DROP USER")
        /\ ~Issued(last.log, "CREATE USER")

\* C3: a user create whose CREATE USER succeeded sends the default-privilege grant;
\* it sends the direct GRANT ON * as well when the database holds a table, and never
\* when the database holds none.
C3_GrantFollowsTables ==
    (last.op = "userCreate" /\ "nil" \in ErrorsOf(last.log, "CREATE USER")) =>
        /\ Issued(last.log, "ALTER DEFAULT PRIVILEGES GRANT")
        /\ (last.plan.database \in tables => Issued(last.log, "GRANT ON *"))
        /\ (last.plan.database \notin tables => ~Issued(last.log, "GRANT ON *"))

\* C4: a user update sends the statements, and leaves the cluster in the state, of
\* delete(prior) followed by create(desired), for every prior and desired record.
C4_UpdateIsDeleteThenCreate ==
    last.op = "userUpdate" =>
        /\ last.log = last.alt.log
        /\ users = last.alt.users
        /\ grants = last.alt.grants
        /\ defaults = last.alt.defaults

\* C5: a user read whose grants query failed removes the record from the state and
\* reports no error.
C5_ReadQueryFailureRemovesSilently ==
    (last.op = "userRead" /\ "error" \in ErrorsOf(last.log, "SHOW GRANTS FOR")) =>
        /\ userState = Null
        /\ last.diags = <<>>

C5_Witness ==
    /\ last.op = "userRead"
    /\ "query" \in last.faults
    /\ last.prior # Null
    /\ last.prior.username \in users
    /\ userState = Null
    /\ last.diags = <<>>

\* C6: a changefeed update that sends the create statement has sent, before it, a
\* CANCEL JOB of the prior record's jobID that succeeded; an update that ends without
\* error persists the identifier the create statement returned, and that identifier
\* is not the prior jobID.
C6_UpdateCancelsThenCreates ==
    last.op = "cfUpdate" =>
        LET st == Statements(last.log)
            cancel == Stmt("CANCEL JOB", <<<<last.prior.jobID>>>>)
        IN  /\ \A j \in Positions(last.log, "CREATE CHANGEFEED") :
                  /\ \E i \in 1..(j - 1) : st[i] = cancel
                  /\ ErrorsOf(last.log, "CANCEL JOB") = {"nil"}
            /\ last.diags = <<>> =>
                  /\ Issued(last.log, "CREATE CHANGEFEED")
                  /\ cfState # Null
                  /\ cfState.jobID = ToString(nextJob - 1)
                  /\ cfState.jobID \in jobsRunning
                  /\ cfState.jobID # last.prior.jobID
                  /\ last.prior.jobID \in jobsCancelled

C6_Witness ==
    /\ last.op = "cfUpdate"
    /\ last.diags = <<>>
    /\ last.prior.jobID = "1"
    /\ cfState.jobID = "2"
    /\ last.plan.bucket # last.prior.bucket

\* C7: a changefeed update whose CANCEL JOB failed reports an error and stops: it
\* sends no CREATE CHANGEFEED, the jobs of the cluster are as they were, and the
\* persisted record is the prior record with its jobID.
C7_CancelFailureAbortsUpdate ==
    [][(last'.op = "cfUpdate" /\ "error" \in ErrorsOf(last'.log, "CANCEL JOB")) =>
          /\ last'.diags # <<>>
          /\ Len(last'.log) = 1
          /\ ~Issued(last'.log, "CREATE CHANGEFEED")
          /\ UNCHANGED clusterJobVars
          /\ cfState' = cfState
          /\ cfState'.jobID = last'.prior.jobID]_vars

C7_Witness ==
    /\ last.op = "cfUpdate"
    /\ "cancel" \in last.faults
    /\ last.diags = <<"Update changefeed error (cancel)">>
    /\ cfState = last.prior
    /\ cfState.jobID \in jobsRunning

\* C8: a changefeed create that ends without error persists the plan with the
\* identifier its statement returned; a create whose statement failed or returned no
\* row reports an error and persists no record.
C8_CreateCapturesJobId ==
    last.op = "cfCreate" =>
        /\ last.diags = <<>> =>
              /\ ErrorsOf(last.log, "CREATE CHANGEFEED") = {"nil"}
              /\ cfState = [last.plan EXCEPT !.jobID = ToString(nextJob - 1)]
              /\ cfState.jobID \in jobsRunning
        /\ ErrorsOf(last.log, "CREATE CHANGEFEED") \cap {"error", "ErrNoRows"} # {} =>
              /\ last.diags # <<>>
              /\ cfState = Null

C8_Witness ==
    /\ last.op = "cfCreate"
    /\ last.diags = <<>>
    /\ cfState # Null
    /\ cfState.jobID = "2"
    /\ jobsRunning = {"1", "2"}

\* C9: a changefeed delete sends CANCEL JOB at most once, and exactly once, for the
\* record's jobID, when it got a connection handle; when that statement fails the
\* delete reports an error, sends nothing more, and leaves the jobs and the
\* persisted record as they were.
C9_DeleteCancelsOnce ==
    [][last'.op = "cfDelete" =>
          /\ Cardinality(Positions(last'.log, "CANCEL JOB")) <= 1
          /\ "connect" \notin last'.faults =>
                /\ Len(last'.log) = 1
                /\ Statements(last'.log)[2] = Stmt("CANCEL JOB", <<<<cfState.jobID>>>>)
          /\ "error" \in ErrorsOf(last'.log, "CANCEL JOB") =>
                /\ last'.diags # <<>>
                /\ UNCHANGED clusterJobVars
                /\ cfState' = cfState]_vars

C9_Witness ==
    /\ last.op = "cfDelete"
    /\ "cancel" \in last.faults
    /\ last.diags = <<"Delete changefeed error">>
    /\ Len(last.log) = 1
    /\ cfState # Null
    /\ cfState.jobID \in jobsRunning

\* C10: a database read that follows a successful create of the name n, with no
\* change to the cluster between the two, keeps the record with the name n.
C10_CreateReadRoundTrip ==
    [][(last.op = "dbCreate" /\ last.diags = <<>> /\ last'.op = "dbRead") =>
          dbState' = [name |-> last.plan.name]]_vars

\* C11: a database read whose catalog query returned zero rows removes the record:
\* the response state holds no record, nothing is persisted, no error is reported;
\* and a read that was answered finds zero rows exactly when the name in state is
\* not in the catalog.
C11_ReadAbsentSignalsNotFound ==
    last.op = "dbRead" =>
        /\ "ErrNoRows" \in ErrorsOf(last.log, "SELECT name FROM crdb_internal.databases") =>
              /\ last.resp = Null
              /\ dbState = Null
              /\ last.diags = <<>>
        /\ (last.faults = {} /\ last.prior.name \notin databases) =>
              /\ Len(last.log) = 1
              /\ last.log[1].err = "ErrNoRows"

C11_Witness ==
    /\ last.op = "dbRead"
    /\ last.faults = {}
    /\ last.prior = [name |-> "d1"]
    /\ "d1" \notin databases
    /\ last.log[1].err = "ErrNoRows"
    /\ dbState = Null

\* C12: a database create sends nothing but CREATE DATABASE, with no query of the
\* catalog before it; a create of a name that exists in the cluster reports an
\* error, persists no record, and leaves the databases and their tables as they were.
C12_CreateExistingFails ==
    [][last'.op = "dbCreate" =>
          /\ \A i \in 1..Len(Verbs(last'.log)) : Verbs(last'.log)[i] = "CREATE DATABASE"
          /\ "connect" \notin last'.faults => Verbs(last'.log) = <<"CREATE DATABASE">>
          /\ last'.plan.name \in databases =>
                /\ last'.diags # <<>>
                /\ last'.resp = Null
                /\ dbState' = Null
                /\ UNCHANGED clusterDbVars]_vars

C12_Witness ==
    /\ last.op = "dbCreate"
    /\ last.faults = {}
    /\ last.plan.name = "d1"
    /\ last.log = <<Call("Exec", CreateDatabaseSql(last.plan), "error")>>
    /\ last.diags = <<"Create db error">>
    /\ "d1" \in tables
    /\ dbState = Null

\* C13: a database update sends no statement and opens no connection handle; it
\* reports nothing, leaves the databases and tables of the cluster as they were, and
\* the persisted record is exactly the planned record.
C13_UpdateIsPassThrough ==
    [][last'.op = "dbUpdate" =>
          /\ last'.log = <<>>
          /\ last'.opened = 0
          /\ last'.diags = <<>>
          /\ UNCHANGED clusterDbVars
          /\ last'.resp = last'.plan
          /\ dbState' = last'.plan]_vars

C13_Witness ==
    /\ last.op = "dbUpdate"
    /\ last.prior = [name |-> "d1"]
    /\ last.plan = [name |-> "d2"]
    /\ dbState = [name |-> "d2"]
    /\ databases = {"d1"}

\* C14: the DROP DATABASE statement of a database delete names the record's database
\* and carries the option the record's cascadeOnDelete flag selects, CASCADE for true
\* and RESTRICT for false; whatever the flag, it carries one of the two.
C14_DeleteCascadeOrRestrict ==
    last.op = "dbDelete" =>
        \A i \in Positions(last.log, "DROP DATABASE") :
            LET args == Statements(last.log)[i].args
            IN  /\ Len(args) = 2
                /\ args[1] = String(last.prior.name)
                /\ args[2] \in {"CASCADE", "RESTRICT"}

\* C15: a database delete of a record that did not opt in to cascade, against a
\* database that holds tables, reports an error and drops nothing: the database and
\* its tables are still in the cluster after the delete.
C15_RestrictProtectsNonEmpty ==
    [][(last'.op = "dbDelete" /\ dbState.name \in tables) =>
          /\ last'.diags # <<>>
          /\ dbState.name \in databases'
          /\ dbState.name \in tables'
          /\ dbState' = dbState]_vars

\* the names of a list joined by the separator, in the order of the list
Joined(names) ==
    [i \in 1..(2 * Len(names) - 1) |-> IF i % 2 = 1 THEN names[(i + 1) \div 2] ELSE Sep]

\* the first name of a list that is outside the vocabulary
FirstInvalid(privList) ==
    privList[CHOOSE i \in 1..Len(privList) :
                /\ privList[i] \notin Vocabulary
                /\ \A j \in 1..(i - 1) : privList[j] \in Vocabulary]

\* C16: every list of names of the vocabulary, of any length and in any order, passes
\* the privilege check, and the privileges text is the names joined by ", " in the
\* order given: no reordering, no quote, no separator after the last name.
C16_ValidRendersInOrder ==
    (last.op = "privilegeCheck" /\ ~HasInvalid(last.plan.privileges)) =>
        /\ last.alt.ok
        /\ last.diags = <<>>
        /\ last.alt.privileges = Joined(last.plan.privileges)

C16_Witness ==
    /\ last.op = "privilegeCheck"
    /\ last.plan.privileges = <<"delete", "select", "update", "insert">>
    /\ last.alt.privileges = <<"delete", Sep, "select", Sep, "update", Sep, "insert">>

\* C17: every list that holds a name outside the vocabulary fails the privilege
\* check as a whole, and the error names the first such name of the list, whatever
\* precedes or follows it.
C17_InvalidNamesFirst ==
    (last.op = "privilegeCheck" /\ HasInvalid(last.plan.privileges)) =>
        /\ ~last.alt.ok
        /\ last.diags = <<"Invalid privilege">>
        /\ Ident(last.alt.invalid) = FirstInvalid(last.plan.privileges)

C17_Witness ==
    /\ last.op = "privilegeCheck"
    /\ last.plan.privileges = <<"select", "bogus", "insert", "all">>
    /\ last.diags = <<"Invalid privilege">>
    /\ last.alt.invalid = String("bogus")

\* C18: an operation that has returned has closed every connection handle it
\* opened, whether it ended in success, in an error or in an early return.
C18_HandleReleasedOnEveryPath ==
    last.closed = last.opened

\* the fields of a configuration that are unresolved, and those absent or empty
UnknownFields(config) ==
    {f \in DOMAIN config : config[f] = UnknownValue}
MissingFields(config) ==
    {f \in DOMAIN config : config[f] = NullValue \/ config[f] = ""}

\* the fields the diagnostics of a Configure report an error for
FieldsReported(diags) ==
    {f \in {"host", "username", "password", "certpath"} :
         \E i \in 1..Len(diags) : diags[i] \in {UnknownTitle(f), MissingTitle(f)}}

\* C19 as stated: Configure reports an error for every field that is absent, empty
\* or unresolved, hands no client and opens no connection when there is one, and
\* hands a client only when the four values are known and non-empty.
C19_ConfigureReportsEveryBadField ==
    last.op = "configure" =>
        LET bad == UnknownFields(last.plan) \cup MissingFields(last.plan)
        IN  /\ bad \subseteq FieldsReported(last.diags)
            /\ bad # {} => (last.resp = Null /\ last.opened = 0)
            /\ last.resp # Null => bad = {}

\* C19 amended: when a field is unresolved Configure reports an error for every
\* unresolved field and for no other; when none is unresolved and a field is absent
\* or empty, for every absent or empty field; in both cases it hands no client and
\* opens no connection.  The client is handed exactly when the four values are known
\* and non-empty, and it carries the connection string made of them.
C19_ConfigureTwoStages ==
    last.op = "configure" =>
        LET unknown == UnknownFields(last.plan)
            missing == MissingFields(last.plan)
        IN  /\ last.opened = 0
            /\ unknown # {} => (FieldsReported(last.diags) = unknown /\ last.resp = Null)
            /\ (unknown = {} /\ missing # {}) =>
                  (FieldsReported(last.diags) = missing /\ last.resp = Null)
            /\ (unknown = {} /\ missing = {}) =>
                  /\ last.diags = <<>>
                  /\ last.resp =
                        [ConnectionString |->
                            <<"postgres://", last.plan.username, ":", last.plan.password,
                              "@", last.plan.host,
                              ":26257?sslmode=verify-full&sslrootcert=",
                              last.plan.certpath>>]

C19_Witness ==
    /\ last.op = "configure"
    /\ last.plan = [host |-> UnknownValue, username |-> "", password |-> "pw",
                    certpath |-> NullValue]
    /\ last.diags = <<UnknownTitle("host")>>
    /\ last.resp = Null

\* C20: the jobID of a persisted changefeed record is an identifier the server has
\* assigned; and a record enters the state, or changes in it, only in a create or an
\* update whose CREATE CHANGEFEED statement for that very record succeeded, with the
\* identifier that statement returned.
C20_JobIdOnlyFromCreate ==
    [][/\ cfState' # Null =>
             cfState'.jobID \in {ToString(i) : i \in 1..(nextJob' - 1)}
       /\ (cfState' # Null /\ cfState' # cfState) =>
             /\ last'.op \in {"cfCreate", "cfUpdate"}
             /\ last'.diags = <<>>
             /\ last'.log[Len(last'.log)] =
                   Call("QueryRow", CreateChangefeedQuery(cfState'), "nil")
             /\ cfState'.jobID = ToString(nextJob)
             /\ nextJob' = nextJob + 1]_vars

C20_Witness ==
    /\ last.op = "cfCreate"
    /\ last.plan.bucket = "b2"
    /\ last.prior = Null
    /\ cfState = [last.plan EXCEPT !.jobID = "1"]
    /\ jobsRunning = {"1"}
    /\ nextJob = 2

\* the operations that create, update or delete a record
WriteOps ==
    {"dbCreate", "dbUpdate", "dbDelete", "userCreate", "userUpdate", "userDelete",
     "cfCreate", "cfUpdate", "cfDelete"}

\* C21: a create, update or delete one of whose calls returned an error from the
\* execution of its statements ends with an error diagnostic.
C21_StatementFailureReported ==
    (last.op \in WriteOps /\ \E i \in 1..Len(last.log) : last.log[i].err = "error") =>
        last.diags # <<>>

\* positions of the statements of a log whose verb is in a set
PositionsIn(log, verbs) == {i \in 1..Len(Verbs(log)) : Verbs(log)[i] \in verbs}

\* every position of the first set comes before every position of the second
Before(first, second) == \A i \in first, j \in second : i < j

\* C22: a user update sends its statements in the order: the clearing of the default
\* privileges and the REVOKE ALL, then DROP USER, then CREATE USER, then the grants.
\* Whenever it sends the dropping batch at all, the clearing and the DROP USER are in
\* it, and the REVOKE ALL too when the database it probed holds tables; the three
\* name the prior record's username when the plan changes the username, and the
\* planned (current) username when it does not.  A CREATE USER it sends is for the
\* planned record, and the grants carry the planned privileges.
C22_UpdateOrderAndTarget ==
    last.op = "userUpdate" =>
        LET st == Statements(last.log)
            clear == Positions(last.log, "ALTER DEFAULT PRIVILEGES REVOKE ALL")
            revoke == Positions(last.log, "REVOKE ALL ON *")
            drop == Positions(last.log, "DROP USER")
            create == Positions(last.log, "CREATE USER")
            grant == PositionsIn(last.log, {"GRANT ON *", "ALTER DEFAULT PRIVILEGES GRANT"})
            target == IF last.prior.username # last.plan.username
                      THEN last.prior.username ELSE last.plan.username
        IN  /\ Before(clear \cup revoke, drop)
            /\ Before(drop, create)
            /\ Before(create, grant)
            /\ Cardinality(drop) <= 1 /\ Cardinality(create) <= 1
            /\ (create # {} \/ grant # {}) => drop # {}
            /\ grant # {} => create # {}
            /\ "connect" \notin last.faults =>
                  /\ Cardinality(clear) = 1 /\ Cardinality(drop) = 1
                  /\ last.plan.database \in tables => Cardinality(revoke) = 1
            /\ \A i \in clear \cup revoke \cup drop :
                  Ident(st[i].args[Len(st[i].args)]) = target
            /\ \A i \in create :
                  /\ Ident(st[i].args[1]) = last.plan.username
                  /\ Ident(st[i - 1].args[1]) = last.plan.database
            /\ \A i \in grant :
                  /\ st[i].args[1] = Joined(last.plan.privileges)
                  /\ Ident(st[i].args[2]) = last.plan.username

C22_Witness ==
    /\ last.op = "userUpdate"
    /\ last.diags = <<>>
    /\ last.prior.username = "u1"
    /\ last.plan.username = "u2"
    /\ last.plan.database \in tables
    /\ Verbs(last.log) =
          <<"SET DATABASE", "SHOW TABLES",
            "SET DATABASE", "ALTER DEFAULT PRIVILEGES REVOKE ALL", "REVOKE ALL ON *",
            "DROP USER",
            "SET DATABASE", "CREATE USER", "SHOW TABLES", "GRANT ON *",
            "ALTER DEFAULT PRIVILEGES GRANT">>
    /\ "u1" \notin users
    /\ "u2" \in users

\* C23: a user delete probes the record's database for tables and then sends one
\* batch: the clearing of the default privileges, REVOKE ALL ON * exactly when the
\* database holds tables, and DROP USER as its last statement; when the batch fails
\* the delete reports an error and the record stays in the state.
C23_DeleteRevokesExactlyWithTables ==
    (last.op = "userDelete" /\ "connect" \notin last.faults) =>
        LET st == Statements(last.log)
            clear == Positions(last.log, "ALTER DEFAULT PRIVILEGES REVOKE ALL")
            revoke == Positions(last.log, "REVOKE ALL ON *")
            drop == Positions(last.log, "DROP USER")
        IN  /\ Len(last.log) = 2
            /\ last.log[1].stmts = ShowTablesSql(last.prior.database)
            /\ Cardinality(clear) = 1
            /\ drop = {Len(st)}
            /\ Before(clear \cup revoke, drop)
            /\ revoke # {} <=> last.prior.database \in tables
            /\ last.log[2].err = "error" =>
                  /\ last.diags # <<>>
                  /\ userState = last.prior

\* C24: a user update whose dropping batch succeeded and whose CREATE USER failed
\* ends with an error, sends nothing after the CREATE USER, leaves the user it
\* dropped absent from the cluster, and the persisted record is the prior record.
C24_UpdateNoCompensation ==
    (/\ last.op = "userUpdate"
     /\ Len(last.log) >= 3
     /\ last.log[2] = Call("Exec", last.log[2].stmts, "nil")
     /\ last.log[3] = Call("Exec", CreateUserSql(last.plan), "error")) =>
        /\ last.diags = <<"Create user error">>
        /\ Len(last.log) = 3
        /\ Verbs(last.log)[Len(Verbs(last.log))] = "CREATE USER"
        /\ last.prior.username \notin users
        /\ last.resp = last.prior
        /\ userState = last.prior

C24_Witness ==
    /\ last.op = "userUpdate"
    /\ "createUser" \in last.faults
    /\ last.prior.username = "u1"
    /\ last.plan.username = "u1"
    /\ last.diags = <<"Create user error">>
    /\ users = {}
    /\ userState = last.prior

\* the persisted record of the resource kind an operation belongs to
RecordOf(op) ==
    IF op \in {"dbCreate", "dbRead", "dbUpdate", "dbDelete"} THEN dbState
    ELSE IF op \in {"cfCreate", "cfRead", "cfUpdate", "cfDelete"} THEN cfState
    ELSE userState

\* C26: a create, update or delete that ends with an error diagnostic has written
\* nothing: the response state and the persisted record are what they were before the
\* operation, no record for a create and the prior record for an update or a delete.
C26_FailedOperationWritesNothing ==
    (last.op \in WriteOps /\ last.diags # <<>>) =>
        /\ last.resp = last.prior
        /\ RecordOf(last.op) = last.prior
        /\ last.op \in {"dbCreate", "userCreate", "cfCreate"} => last.prior = Null

C26_Witness ==
    /\ last.op = "userUpdate"
    /\ last.diags = <<"Delete user error (tables)">>
    /\ last.plan.privileges # last.prior.privileges
    /\ last.plan.username # last.prior.username
    /\ userState = last.prior

\* C27: the jobID of the persisted changefeed record is never the identifier of a job
\* that was cancelled, the state after an update whose cancel succeeded and whose
\* create failed included.
C27_PersistedJobNotCancelled ==
    cfState # Null => cfState.jobID \notin jobsCancelled

\* C28: a database read never leaves a record with an empty name in the state, and
\* a read whose catalog query failed with an error other than no-rows leaves the
\* persisted record as it was.
C28_ReadNeverWritesEmptyName ==
    /\ dbState # Null => dbState.name # ""
    /\ (last.op = "dbRead" /\ Len(last.log) = 1 /\ last.log[1].err = "error") =>
          /\ last.resp = last.prior
          /\ dbState = last.prior

\* C29: a user read whose grants query succeeded reports nothing and leaves the
\* record as it was, username, password, database and privileges, whatever privilege
\* names the rows of the cluster carry.
C29_ReadKeepsRecord ==
    (last.op = "userRead" /\ "nil" \in ErrorsOf(last.log, "SHOW GRANTS FOR")) =>
        /\ last.diags = <<>>
        /\ last.resp = last.prior
        /\ userState = last.prior

C29_Witness ==
    /\ last.op = "userRead"
    /\ last.faults = {}
    /\ ErrorsOf(last.log, "SHOW GRANTS FOR") = {"nil"}
    /\ last.prior.privileges = <<"insert", "select">>
    /\ privilegeReadSlice(Cluster, last.prior.username, last.prior.database)
          = <<"select", "insert">>
    /\ userState = last.prior

\* C30: after a delete that ended without error the record is gone: the delete has
\* left no record in its response state, and none is persisted.
C30_DeleteLeavesNoRecord ==
    (last.op \in {"dbDelete", "userDelete", "cfDelete"} /\ last.diags = <<>>) =>
        /\ last.resp = Null
        /\ RecordOf(last.op) = Null

\* the names of a privilege list
Names(privList) == {privList[k] : k \in 1..Len(privList)}

\* both resources have ended an update without error and persisted its plan
BothUpdated ==
    \A i \in Instances :
        /\ last.op[i] = "userUpdate"
        /\ last.pc[i] = "idle"
        /\ last.diags[i] = <<>>
        /\ userState[i] = last.plan[i]

\* the privileges the cluster holds for the user of a record are not the record's
Differs(record) ==
    \/ defaults[record.username, record.database] # Names(record.privileges)
    \/ /\ record.database \in tables
       /\ grants[record.username, record.database] # Names(record.privileges)

\* C25: two resources that name the same user in the same database are updated with
\* no lock between them.  When both updates have ended without error and persisted
\* their records, the user exists, and the default privileges the cluster holds for
\* it contain those of one of the records and nothing outside the two; they differ
\* from both records only when the calls of the two updates were interleaved.  Such a
\* state, both updates successful and the cluster different from a persisted record,
\* is reachable (the witness).
C25_ConcurrentUpdatesRace ==
    BothUpdated =>
        LET held == defaults["u1", "d1"]
        IN  /\ "u1" \in users
            /\ \E i \in Instances : Names(userState[i].privileges) \subseteq held
            /\ held \subseteq UNION {Names(userState[i].privileges) : i \in Instances}
            /\ (\A i \in Instances : Differs(userState[i])) =>
                  \E i \in Instances : last.overlapped[i]

C25_Witness ==
    /\ BothUpdated
    /\ \A i \in Instances : last.overlapped[i]
    /\ userState[1].privileges # userState[2].privileges
    /\ \A i \in Instances : Differs(userState[i])

====
